---- MODULE Spec2Model ----
(***************************************************************************)
(* Model of the platform-support layer of the PIC32CM Curiosity Nano      *)
(* sample (src/platform/gpio.c, src/platform.h): one-time initialisation, *)
(* the EXTINT[2] push-button interrupt handler with its read-and-clear    *)
(* consumer, the TC0-driven blink routine and the asynchronous serial     *)
(* channel declared in platform.h.                                        *)
(*                                                                         *)
(* The main thread is a program counter `pc`; the interrupt handler and   *)
(* the hardware are separate actions that interleave with it.  The        *)
(* handler runs to completion between two main-thread steps (the main     *)
(* thread cannot preempt an interrupt handler).                           *)
(***************************************************************************)
EXTENDS Integers, Sequences, FiniteSets, TLC

\* ------------------------------------------------------------------------
\* Bounds of the model (not program constants)
\* ------------------------------------------------------------------------
\* handler invocations recorded per platform_pb_get_event window
MaxEvents == 2
\* counter samples are taken within Near of every blink threshold
Near == 1
\* number of distinct caller descriptors offered to the serial channel
MaxDesc == 2
\* the tick counter stops advancing at MaxTick
MaxTick == 2
\* tick samples lie within TickSpan of the ends of each field's range
TickSpan == 1
\* the seconds field wraps at SecModulus (the width of nr_sec scaled down to
\* the integers of the model checker)
SecModulus == 65536

\* ------------------------------------------------------------------------
\* Program constants
\* ------------------------------------------------------------------------
PLATFORM_PB_ONBOARD_PRESS == 1
PLATFORM_PB_ONBOARD_RELEASE == 2
PLATFORM_PB_ONBOARD_MASK == 3

OFF == 0
SLOW == 1
MEDIUM == 2
FAST == 3
ON == 4

PeriodSlow == 23438
PeriodMedium == 11719
PeriodFast == 7032
\* duty factors 0.9, 0.8 and 0.5 as tenths
DutySlow == 9
DutyMedium == 8
DutyFast == 5

\* bit positions polled in TC_SYNCBUSY
SYNC_COUNT == 2
SYNC_CC0 == 6

Uint16Max == 65535

NSEC_PER_SEC == 1000000000

PLATFORM_USART_RX_COMPL_NONE == 0
PLATFORM_USART_RX_COMPL_DATA == 1

VARIABLES
    pc,             \* position of the processor: in the main thread or in the handler
    hret,           \* position the running handler returns to, "none" outside it
    ip,             \* index of the running step of platform_init
    initLog,        \* steps of platform_init that have returned, in order
    primask,        \* 1: interrupts masked in the core
    nvic_eic,       \* NVIC enable of EIC_EXTINT_2_IRQn
    nvic_systick,   \* NVIC enable of SysTick_IRQn
    GCLK_PCHCTRL4,  \* read-back value of GCLK_PCHCTRL[4]
    eic_swrst_busy, \* EIC_SYNCBUSY bit 0
    eic_enable,     \* EIC_CTRLA bit 1
    eic_enable_busy,\* EIC_SYNCBUSY bit 1
    eic_intenset2,  \* EIC_INTENSET bit 2
    eic_intflag2,   \* EIC_INTFLAG bit 2
    pin,            \* EIC_PINSTATE bit 2 (PA23, 0 = pressed)
    eicCfgLog,      \* EIC configuration writes: <<register, enabled, reset busy>>
    pb_press_mask,  \* static volatile uint16_t pb_press_mask
    cache,          \* local of platform_pb_get_event
    evIdle,         \* pin levels read by handler runs since the last return of get_event
    evDuring,       \* <<pin level>> read by the last handler run between load and store of get_event, <<>> if none
    lastCall,       \* the most recent completed platform_pb_get_event call
    prevCall,       \* the completed call before it
    hRanAt,         \* <<initLog>> at the first handler run, <<>> before it
    currentSetting, \* blink mode
    TC_CC0,         \* TC0 COUNT16.CC[0]
    TC_COUNT,       \* TC0 COUNT16.COUNT
    tc_syncbusy,    \* set of busy bit positions of TC0 COUNT16.SYNCBUSY
    PA15,           \* PORT group 0 OUT bit 15 (LED, active high)
    bmCall,         \* the current / most recent platform_blink_modify call
    tx_active,      \* descriptor arrays handed to the transmitter and not yet sent
    rx_active,      \* reception descriptors armed and not yet completed
    rx_compl,       \* compl_type of each caller-owned reception descriptor
    txLog,          \* the last two transmit-side operations
    rxLog,          \* the last two receive-side operations
    tickNow,        \* the running tick
    dlCall,         \* the current / most recent platform_do_loop_one call
    tdCall          \* the most recent platform_tick_delta call

cpuVars == <<hret, primask, nvic_eic, nvic_systick>>
eicVars == <<GCLK_PCHCTRL4, eic_swrst_busy, eic_enable, eic_enable_busy,
             eic_intenset2, eic_intflag2, pin, eicCfgLog>>
pbVars == <<pb_press_mask, cache, evIdle, evDuring, lastCall, prevCall, hRanAt>>
blinkVars == <<currentSetting, TC_CC0, TC_COUNT, tc_syncbusy, PA15, bmCall>>
usartVars == <<tx_active, rx_active, rx_compl, txLog, rxLog, tickNow, dlCall>>
tickVars == <<tdCall>>
vars == <<pc, ip, initLog, cpuVars, eicVars, pbVars, blinkVars, usartVars,
          tickVars>>

\* ------------------------------------------------------------------------
\* Helpers
\* ------------------------------------------------------------------------
RECURSIVE BitAnd(_, _)
BitAnd(a, b) ==
    IF a = 0 \/ b = 0 THEN 0
    ELSE (a % 2) * (b % 2) + 2 * BitAnd(a \div 2, b \div 2)

RECURSIVE BitOr(_, _)
BitOr(a, b) ==
    IF a = 0 THEN b
    ELSE IF b = 0 THEN a
    ELSE (IF a % 2 = 1 \/ b % 2 = 1 THEN 1 ELSE 0) + 2 * BitOr(a \div 2, b \div 2)

\* ~x for a uint16_t operand truncated to 16 bits
BitNot16(x) == Uint16Max - x

Range(s) == {s[i] : i \in 1..Len(s)}

NoCall == [valid |-> FALSE, ret |-> 0, before |-> <<>>]
NoDelta == [valid |-> FALSE, lhs |-> [sec |-> 0, nsec |-> 0],
            rhs |-> [sec |-> 0, nsec |-> 0], diff |-> [sec |-> 0, nsec |-> 0]]
NoLoop == [samples |-> <<>>, handed |-> <<>>, done |-> FALSE]
Descs == 1..MaxDesc
\* the log keeps the last two operations
Last2(log, e) == IF Len(log) < 2 THEN Append(log, e) ELSE <<log[2], e>>

NoBlink == [mode |-> OFF, ledBefore |-> 0, samples |-> <<>>, ccWrites |-> 0,
            done |-> FALSE]

\* ------------------------------------------------------------------------
\* platform_init
\* ------------------------------------------------------------------------
\* mutant: NVIC_init is called before the late initialisation
InitOrderNvicEarly ==
    << "raise_perf_level", "EVSYS_init", "EIC_init_early", "TC0_Init",
       "PB_init", "Emergency_Pins_Init", "blink_init", "platform_usart_init",
       "NVIC_init", "EIC_init_late", "platform_systick_init" >>

\* mutant: PB_init is called after the EIC has been enabled
InitOrderPbLate ==
    << "raise_perf_level", "EVSYS_init", "EIC_init_early", "TC0_Init",
       "Emergency_Pins_Init", "blink_init", "platform_usart_init",
       "EIC_init_late", "PB_init", "platform_systick_init", "NVIC_init" >>

InitOrder ==
    << "raise_perf_level", "EVSYS_init", "EIC_init_early", "TC0_Init",
       "PB_init", "Emergency_Pins_Init", "blink_init", "platform_usart_init",
       "EIC_init_late", "platform_systick_init", "NVIC_init" >>

InInit == ip <= Len(InitOrder)
Running(f) == InInit /\ InitOrder[ip] = f

\* the step returns: platform_init moves to its next call, or returns
StepReturn(f) ==
    /\ ip' = ip + 1
    /\ initLog' = Append(initLog, f)
    /\ pc' = IF ip + 1 <= Len(InitOrder) THEN InitOrder[ip + 1] ELSE "main"

Init ==
    /\ pc = InitOrder[1]
    /\ hret = "none"
    /\ ip = 1
    /\ initLog = <<>>
    /\ primask \in {0, 1}
    /\ nvic_eic = FALSE
    /\ nvic_systick = FALSE
    /\ GCLK_PCHCTRL4 = 0
    /\ eic_swrst_busy = FALSE
    /\ eic_enable = FALSE
    /\ eic_enable_busy = FALSE
    /\ eic_intenset2 = 0
    /\ eic_intflag2 = 0
    /\ pin \in {0, 1}
    /\ eicCfgLog = <<>>
    /\ pb_press_mask = 0
    /\ cache = 0
    /\ evIdle = <<>>
    /\ evDuring = <<>>
    /\ lastCall = NoCall
    /\ prevCall = NoCall
    /\ hRanAt = <<>>
    /\ currentSetting = OFF
    /\ TC_CC0 = 0
    /\ TC_COUNT = 0
    /\ tc_syncbusy = {}
    /\ PA15 = 0
    /\ bmCall = NoBlink
    /\ tx_active = {}
    /\ rx_active = {}
    /\ rx_compl = [d \in Descs |-> PLATFORM_USART_RX_COMPL_NONE]
    /\ txLog = <<>>
    /\ rxLog = <<>>
    /\ tickNow = 0
    /\ dlCall = NoLoop
    /\ tdCall = NoDelta

\* a step whose body is outside this file and touches none of the modelled state
OpaqueInitStep(f) ==
    /\ Running(f) /\ pc = f
    /\ StepReturn(f)
    /\ UNCHANGED <<cpuVars, eicVars, pbVars, blinkVars,
                   usartVars, tickVars>>

raise_perf_level == OpaqueInitStep("raise_perf_level")
EVSYS_init == OpaqueInitStep("EVSYS_init")
Emergency_Pins_Init == OpaqueInitStep("Emergency_Pins_Init")
blink_init == OpaqueInitStep("blink_init")

CfgWrite(reg) == <<reg, eic_enable, eic_swrst_busy>>

\* GCLK_PCHCTRL[4] = 0x42: the read-back shows the generator field at once or
\* only when the write has reached the generic clock controller, and the
\* channel-enable bit (0x40) once the write has synchronised
EIC_init_early_gclk ==
    /\ Running("EIC_init_early") /\ pc = "EIC_init_early"
    /\ GCLK_PCHCTRL4' \in {0, 2}
    /\ pc' = "EIC_early_wait_gclk"
    /\ UNCHANGED <<ip, initLog, cpuVars, eic_swrst_busy, eic_enable,
                   eic_enable_busy, eic_intenset2, eic_intflag2, pin,
                   eicCfgLog, pbVars, blinkVars,
                   usartVars, tickVars>>

\* while ((PCHCTRL[4] & 0x42) == 0) nop;  then EIC_CTRLA = 0x01 (software reset)
EIC_init_early_swrst ==
    /\ Running("EIC_init_early") /\ pc = "EIC_early_wait_gclk"
    /\ BitAnd(GCLK_PCHCTRL4, 66) # 0
    /\ eic_swrst_busy' = TRUE
    /\ eic_enable' = FALSE
    /\ eic_enable_busy' = FALSE
    /\ eic_intenset2' = 0
    /\ eic_intflag2' = 0
    /\ pc' = "EIC_early_wait_swrst"
    /\ UNCHANGED <<ip, initLog, cpuVars, GCLK_PCHCTRL4, pin, eicCfgLog,
                   pbVars, blinkVars,
                   usartVars, tickVars>>

\* while ((EIC_SYNCBUSY & 0x01) != 0) nop;  then EIC_DPRESCALER = 0xF
EIC_init_early_dprescaler ==
    /\ Running("EIC_init_early") /\ pc = "EIC_early_wait_swrst"
    /\ ~eic_swrst_busy
    /\ eicCfgLog' = Append(eicCfgLog, CfgWrite("DPRESCALER"))
    /\ StepReturn("EIC_init_early")
    /\ UNCHANGED <<cpuVars, GCLK_PCHCTRL4, eic_swrst_busy, eic_enable,
                   eic_enable_busy, eic_intenset2, eic_intflag2, pin,
                   pbVars, blinkVars,
                   usartVars, tickVars>>

\* TC0_Init is defined outside this file; platform_blink_modify programs the
\* compare register itself before every use of it
TC0_Init == OpaqueInitStep("TC0_Init")

\* EIC_DEBOUNCEN |= ..; EIC_CONFIG0 &= ~..; EIC_CONFIG0 |= ..; EIC_INTENSET = 4
PB_init ==
    /\ Running("PB_init") /\ pc = "PB_init"
    /\ eicCfgLog' = eicCfgLog \o << CfgWrite("DEBOUNCEN"), CfgWrite("CONFIG0"),
                                    CfgWrite("CONFIG0"), CfgWrite("INTENSET") >>
    /\ eic_intenset2' = 1
    /\ StepReturn("PB_init")
    /\ UNCHANGED <<cpuVars, GCLK_PCHCTRL4, eic_swrst_busy, eic_enable,
                   eic_enable_busy, eic_intflag2, pin, pbVars, blinkVars,
                   usartVars, tickVars>>

platform_usart_init == OpaqueInitStep("platform_usart_init")
platform_systick_init == OpaqueInitStep("platform_systick_init")

\* EIC_CTRLA |= 0x02
EIC_init_late_enable ==
    /\ Running("EIC_init_late") /\ pc = "EIC_init_late"
    /\ eic_enable' = TRUE
    /\ eic_enable_busy' = TRUE
    /\ pc' = "EIC_late_wait"
    /\ UNCHANGED <<ip, initLog, cpuVars, GCLK_PCHCTRL4, eic_swrst_busy,
                   eic_intenset2, eic_intflag2, pin, eicCfgLog, pbVars,
                   blinkVars,
                   usartVars, tickVars>>

\* mutant: EIC_init_late returns without waiting for the enable to synchronise
EIC_init_late_nowait ==
    /\ Running("EIC_init_late") /\ pc = "EIC_late_wait"
    /\ StepReturn("EIC_init_late")
    /\ UNCHANGED <<cpuVars, eicVars, pbVars, blinkVars,
                   usartVars, tickVars>>

\* while ((EIC_SYNCBUSY & 0x02) != 0) nop;
EIC_init_late_wait ==
    /\ Running("EIC_init_late") /\ pc = "EIC_late_wait"
    /\ ~eic_enable_busy
    /\ StepReturn("EIC_init_late")
    /\ UNCHANGED <<cpuVars, eicVars, pbVars, blinkVars,
                   usartVars, tickVars>>

\* __DMB(); __enable_irq(); NVIC_SetPriority(...) twice
NVIC_init_enable_irq ==
    /\ Running("NVIC_init") /\ pc = "NVIC_init"
    /\ primask' = 0
    /\ pc' = "NVIC_enable_eic"
    /\ UNCHANGED <<ip, initLog, hret, nvic_eic, nvic_systick, eicVars, pbVars,
                   blinkVars,
                   usartVars, tickVars>>

\* NVIC_EnableIRQ(EIC_EXTINT_2_IRQn)
NVIC_init_enable_eic ==
    /\ Running("NVIC_init") /\ pc = "NVIC_enable_eic"
    /\ nvic_eic' = TRUE
    /\ pc' = "NVIC_enable_systick"
    /\ UNCHANGED <<ip, initLog, hret, primask, nvic_systick, eicVars, pbVars,
                   blinkVars,
                   usartVars, tickVars>>

\* NVIC_EnableIRQ(SysTick_IRQn); return
NVIC_init_enable_systick ==
    /\ Running("NVIC_init") /\ pc = "NVIC_enable_systick"
    /\ nvic_systick' = TRUE
    /\ StepReturn("NVIC_init")
    /\ UNCHANGED <<hret, primask, nvic_eic, eicVars, pbVars, blinkVars,
                   usartVars, tickVars>>

platform_init ==
    \/ raise_perf_level
    \/ EVSYS_init
    \/ EIC_init_early_gclk
    \/ EIC_init_early_swrst
    \/ EIC_init_early_dprescaler
    \/ TC0_Init
    \/ PB_init
    \/ Emergency_Pins_Init
    \/ blink_init
    \/ platform_usart_init
    \/ EIC_init_late_enable
    \/ EIC_init_late_wait
    \/ platform_systick_init
    \/ NVIC_init_enable_irq
    \/ NVIC_init_enable_eic
    \/ NVIC_init_enable_systick

\* ------------------------------------------------------------------------
\* Hardware
\* ------------------------------------------------------------------------
\* the channel-enable bit of GCLK_PCHCTRL[4] synchronises
HwGclkSync ==
    /\ \/ GCLK_PCHCTRL4 = 0 /\ pc = "EIC_early_wait_gclk"
       \/ GCLK_PCHCTRL4 = 2
    /\ GCLK_PCHCTRL4' = IF GCLK_PCHCTRL4 = 0 THEN 2 ELSE 66
    /\ UNCHANGED <<pc, ip, initLog, cpuVars, eic_swrst_busy, eic_enable,
                   eic_enable_busy, eic_intenset2, eic_intflag2, pin,
                   eicCfgLog, pbVars, blinkVars,
                   usartVars, tickVars>>

HwEicSwrstDone ==
    /\ eic_swrst_busy
    /\ eic_swrst_busy' = FALSE
    /\ UNCHANGED <<pc, ip, initLog, cpuVars, GCLK_PCHCTRL4, eic_enable,
                   eic_enable_busy, eic_intenset2, eic_intflag2, pin,
                   eicCfgLog, pbVars, blinkVars,
                   usartVars, tickVars>>

HwEicEnableDone ==
    /\ eic_enable_busy
    /\ eic_enable_busy' = FALSE
    /\ UNCHANGED <<pc, ip, initLog, cpuVars, GCLK_PCHCTRL4, eic_swrst_busy,
                   eic_enable, eic_intenset2, eic_intflag2, pin, eicCfgLog,
                   pbVars, blinkVars,
                   usartVars, tickVars>>

\* the (debounced) level of PA23 changes; an enabled EIC latches the edge
ButtonEdge ==
    /\ pin' = 1 - pin
    /\ eic_intflag2' = IF eic_enable THEN 1 ELSE eic_intflag2
    /\ UNCHANGED <<pc, ip, initLog, cpuVars, GCLK_PCHCTRL4, eic_swrst_busy,
                   eic_enable, eic_enable_busy, eic_intenset2, eicCfgLog,
                   pbVars, blinkVars,
                   usartVars, tickVars>>

\* ------------------------------------------------------------------------
\* Push-button events
\* ------------------------------------------------------------------------
\* mutant: the handler sets its bit without clearing the other one first
HandlerMaskAccumulate(mask, level) ==
    BitOr(mask, IF level = 0 THEN PLATFORM_PB_ONBOARD_PRESS
                             ELSE PLATFORM_PB_ONBOARD_RELEASE)

\* mutant: the test of the pin level is inverted
HandlerMaskSwapped(mask, level) ==
    BitOr(BitAnd(mask, BitNot16(PLATFORM_PB_ONBOARD_MASK)),
          IF level # 0 THEN PLATFORM_PB_ONBOARD_PRESS
                       ELSE PLATFORM_PB_ONBOARD_RELEASE)

\* pb_press_mask &= ~MASK; then |= PRESS if the pin reads 0, else |= RELEASE
HandlerMask(mask, level) ==
    BitOr(BitAnd(mask, BitNot16(PLATFORM_PB_ONBOARD_MASK)),
          IF level = 0 THEN PLATFORM_PB_ONBOARD_PRESS
                       ELSE PLATFORM_PB_ONBOARD_RELEASE)

IrqPending ==
    /\ primask = 0
    /\ nvic_eic
    /\ eic_intflag2 = 1
    /\ eic_intenset2 = 1

\* a history of pin levels with one more: a history longer than MaxEvents keeps
\* its latest levels behind the mark 2, which stands for the runs left out
Logged(log, level) ==
    LET full == Append(log, level)
    IN  IF Len(full) <= MaxEvents
          THEN full
          ELSE <<2>> \o SubSeq(full, Len(full) - MaxEvents + 2, Len(full))

\* the pin level the running handler read from EIC_PINSTATE
LevelRead ==
    IF hret = "ge_store" THEN evDuring[Len(evDuring)] ELSE evIdle[Len(evIdle)]

\* entry of the handler up to the update of the mask:
\* pb_press_mask &= ~MASK; if ((EIC_PINSTATE & (1 << 2)) == 0) |= PRESS else |= RELEASE
EIC_EXTINT_2_Handler ==
    /\ IrqPending
    /\ pc # "eic_ack"
    /\ pb_press_mask' = HandlerMask(pb_press_mask, pin)
    /\ IF pc = "ge_store"
         THEN evDuring' = <<pin>> /\ evIdle' = evIdle
         ELSE evIdle' = Logged(evIdle, pin) /\ evDuring' = evDuring
    /\ hRanAt' = IF hRanAt = <<>> THEN <<initLog>> ELSE hRanAt
    /\ hret' = pc
    /\ pc' = "eic_ack"
    /\ UNCHANGED <<ip, initLog, primask, nvic_eic, nvic_systick, eicVars,
                   cache, lastCall, prevCall, blinkVars,
                   usartVars, tickVars>>

\* mutant: the release path returns without clearing the interrupt flag
EIC_EXTINT_2_Handler_ack_NoAckOnRelease ==
    /\ pc = "eic_ack"
    /\ eic_intflag2' = IF LevelRead = 0 THEN 0 ELSE eic_intflag2
    /\ pc' = hret
    /\ hret' = "none"
    /\ UNCHANGED <<ip, initLog, primask, nvic_eic, nvic_systick, GCLK_PCHCTRL4, eic_swrst_busy,
                   eic_enable, eic_enable_busy, eic_intenset2, pin, eicCfgLog,
                   pbVars, blinkVars, usartVars, tickVars>>

\* EIC_INTFLAG |= (1 << 2); return
EIC_EXTINT_2_Handler_ack ==
    /\ pc = "eic_ack"
    /\ eic_intflag2' = 0
    /\ pc' = hret
    /\ hret' = "none"
    /\ UNCHANGED <<ip, initLog, primask, nvic_eic, nvic_systick, GCLK_PCHCTRL4, eic_swrst_busy,
                   eic_enable, eic_enable_busy, eic_intenset2, pin, eicCfgLog,
                   pbVars, blinkVars, usartVars, tickVars>>

\* uint16_t cache = pb_press_mask;
platform_pb_get_event_load ==
    /\ pc = "main"
    /\ cache' = pb_press_mask
    /\ pc' = "ge_store"
    /\ UNCHANGED <<ip, initLog, cpuVars, eicVars, pb_press_mask, evIdle,
                   evDuring, lastCall, prevCall, hRanAt, blinkVars,
                   usartVars, tickVars>>

\* mutant: platform_pb_get_event returns the mask without resetting it
ClearedMaskKept(mask) == mask

\* the value platform_pb_get_event stores into pb_press_mask
ClearedMask(mask) == 0

\* pb_press_mask = 0; return cache;
platform_pb_get_event_store ==
    /\ pc = "ge_store"
    /\ pb_press_mask' = ClearedMask(pb_press_mask)
    /\ lastCall' = [valid |-> TRUE, ret |-> cache, before |-> evIdle]
    /\ prevCall' = lastCall
    /\ evIdle' = <<>>
    /\ evDuring' = <<>>
    /\ cache' = 0
    /\ pc' = "main"
    /\ UNCHANGED <<ip, initLog, cpuVars, eicVars, hRanAt, blinkVars,
                   usartVars, tickVars>>

\* ------------------------------------------------------------------------
\* Blink
\* ------------------------------------------------------------------------
Modes == {OFF, SLOW, MEDIUM, FAST, ON}
Timed == {SLOW, MEDIUM, FAST}

\* the value written to TC_CC[0] in each timed case
Period(mode) ==
    CASE mode = SLOW -> PeriodSlow
      [] mode = MEDIUM -> PeriodMedium
      [] mode = FAST -> PeriodFast
      [] OTHER -> 0

\* mutant: the SLOW case compares against the MEDIUM factor
DutyCopied(mode) ==
    CASE mode = SLOW -> DutyMedium
      [] mode = MEDIUM -> DutyMedium
      [] mode = FAST -> DutyFast
      [] OTHER -> 0

\* the factor of TC_CC[0] in each timed case, in tenths
Duty(mode) ==
    CASE mode = SLOW -> DutySlow
      [] mode = MEDIUM -> DutyMedium
      [] mode = FAST -> DutyFast
      [] OTHER -> 0

\* read_count() < TC_CC[0] * duty, scaled by ten
BelowThreshold(c, cc, duty) == 10 * c < cc * duty

\* read_count() > TC_CC[0] * duty, scaled by ten
AboveThreshold(c, cc, duty) == 10 * c > cc * duty

\* the case of the switch taken for a mode
BlinkCase(mode) ==
    CASE mode = OFF -> "off"
      [] mode \in Timed -> "timed"
      [] mode = ON -> "on"
      [] OTHER -> "none"

\* counter values the hardware is observed at: the ends of the range, the
\* two values of the documented example and the neighbourhood of every
\* threshold
CountSamples ==
    {0, 20000, 22000, Uint16Max} \cup
    {((Period(m) * Duty(m)) \div 10) + d : m \in Timed, d \in (0 - Near)..Near}

platform_blink_modify_enter ==
    /\ pc = "main"
    /\ pc' = "bm_switch"
    /\ bmCall' = [mode |-> currentSetting, ledBefore |-> PA15, samples |-> <<>>,
                  ccWrites |-> 0, done |-> FALSE]
    /\ UNCHANGED <<ip, initLog, cpuVars, eicVars, pbVars, currentSetting,
                   TC_CC0, TC_COUNT, tc_syncbusy, PA15,
                   usartVars, tickVars>>

\* case OFF: PORT_OUTCLR = (1 << 15); break;
platform_blink_modify_off ==
    /\ pc = "bm_switch"
    /\ BlinkCase(currentSetting) = "off"
    /\ PA15' = 0
    /\ bmCall' = [bmCall EXCEPT !.done = TRUE]
    /\ pc' = "main"
    /\ UNCHANGED <<ip, initLog, cpuVars, eicVars, pbVars, currentSetting,
                   TC_CC0, TC_COUNT, tc_syncbusy,
                   usartVars, tickVars>>

\* mutant: the ON case returns without driving the pin
platform_blink_modify_on_nop ==
    /\ pc = "bm_switch"
    /\ BlinkCase(currentSetting) = "on"
    /\ bmCall' = [bmCall EXCEPT !.done = TRUE]
    /\ pc' = "main"
    /\ UNCHANGED <<ip, initLog, cpuVars, eicVars, pbVars, currentSetting,
                   TC_CC0, TC_COUNT, tc_syncbusy, PA15, usartVars, tickVars>>

\* case ON: PORT_OUTSET = (1 << 15); break;
platform_blink_modify_on ==
    /\ pc = "bm_switch"
    /\ BlinkCase(currentSetting) = "on"
    /\ PA15' = 1
    /\ bmCall' = [bmCall EXCEPT !.done = TRUE]
    /\ pc' = "main"
    /\ UNCHANGED <<ip, initLog, cpuVars, eicVars, pbVars, currentSetting,
                   TC_CC0, TC_COUNT, tc_syncbusy,
                   usartVars, tickVars>>

\* mutant: a default label shares the code of the OFF case
platform_blink_modify_none_as_off ==
    /\ pc = "bm_switch"
    /\ BlinkCase(currentSetting) = "none"
    /\ PA15' = 0
    /\ bmCall' = [bmCall EXCEPT !.done = TRUE]
    /\ pc' = "main"
    /\ UNCHANGED <<ip, initLog, cpuVars, eicVars, pbVars, currentSetting,
                   TC_CC0, TC_COUNT, tc_syncbusy, usartVars, tickVars>>

\* no case matches (the switch has no default): nothing is written
platform_blink_modify_none ==
    /\ pc = "bm_switch"
    /\ BlinkCase(currentSetting) = "none"
    /\ bmCall' = [bmCall EXCEPT !.done = TRUE]
    /\ pc' = "main"
    /\ UNCHANGED <<ip, initLog, cpuVars, eicVars, pbVars, currentSetting,
                   TC_CC0, TC_COUNT, tc_syncbusy, PA15, usartVars, tickVars>>

\* case SLOW / MEDIUM / FAST: TC_CC[0] = period;
platform_blink_modify_cc ==
    /\ pc = "bm_switch"
    /\ BlinkCase(currentSetting) = "timed"
    /\ TC_CC0' = Period(currentSetting)
    /\ tc_syncbusy' = tc_syncbusy \cup {SYNC_CC0}
    /\ bmCall' = [bmCall EXCEPT !.ccWrites = @ + 1]
    /\ pc' = "bm_wait_cc"
    /\ UNCHANGED <<ip, initLog, cpuVars, eicVars, pbVars, currentSetting,
                   TC_COUNT, PA15,
                   usartVars, tickVars>>

\* while (TC_SYNCBUSY & (1 << 6));
platform_blink_modify_wait_cc ==
    /\ pc = "bm_wait_cc"
    /\ SYNC_CC0 \notin tc_syncbusy
    /\ pc' = "bm_rc1_cmd"
    /\ UNCHANGED <<ip, initLog, cpuVars, eicVars, pbVars, blinkVars,
                   usartVars, tickVars>>

\* read_count: TC_CTRLBSET = (0x4 << 5);
read_count_cmd ==
    /\ pc \in {"bm_rc1_cmd", "bm_rc2_cmd"}
    /\ tc_syncbusy' = tc_syncbusy \cup {SYNC_COUNT}
    /\ pc' = IF pc = "bm_rc1_cmd" THEN "bm_rc1_wait" ELSE "bm_rc2_wait"
    /\ UNCHANGED <<ip, initLog, cpuVars, eicVars, pbVars, currentSetting,
                   TC_CC0, TC_COUNT, PA15, bmCall,
                   usartVars, tickVars>>

\* read_count: while (TC_SYNCBUSY & (1 << 2)); return TC_COUNT;
\* if (read_count() < TC_CC[0] * duty) PORT_OUTCLR = (1 << 15);
platform_blink_modify_first ==
    /\ pc = "bm_rc1_wait"
    /\ SYNC_COUNT \notin tc_syncbusy
    /\ PA15' = IF BelowThreshold(TC_COUNT, TC_CC0, Duty(currentSetting))
                 THEN 0 ELSE PA15
    /\ bmCall' = [bmCall EXCEPT !.samples = Append(@, TC_COUNT)]
    /\ pc' = "bm_rc2_cmd"
    /\ UNCHANGED <<ip, initLog, cpuVars, eicVars, pbVars, currentSetting,
                   TC_CC0, TC_COUNT, tc_syncbusy,
                   usartVars, tickVars>>

\* if (read_count() > TC_CC[0] * duty) PORT_OUTSET = (1 << 15);  break;
platform_blink_modify_second ==
    /\ pc = "bm_rc2_wait"
    /\ SYNC_COUNT \notin tc_syncbusy
    /\ PA15' = IF AboveThreshold(TC_COUNT, TC_CC0, Duty(currentSetting))
                 THEN 1 ELSE PA15
    /\ bmCall' = [bmCall EXCEPT !.samples = Append(@, TC_COUNT), !.done = TRUE]
    /\ pc' = "main"
    /\ UNCHANGED <<ip, initLog, cpuVars, eicVars, pbVars, currentSetting,
                   TC_CC0, TC_COUNT, tc_syncbusy,
                   usartVars, tickVars>>

\* the values currentSetting can hold: the five modes and a value outside them
ModeValues == Modes \cup {ON + 1}

\* the application assigns a new blink mode
SetMode ==
    /\ pc = "main"
    /\ \E m \in ModeValues \ {currentSetting} : currentSetting' = m
    /\ UNCHANGED <<pc, ip, initLog, cpuVars, eicVars, pbVars, TC_CC0, TC_COUNT,
                   tc_syncbusy, PA15, bmCall,
                   usartVars, tickVars>>

\* a pending register synchronisation of TC0 completes
HwTcSyncDone ==
    /\ \E b \in tc_syncbusy : tc_syncbusy' = tc_syncbusy \ {b}
    /\ UNCHANGED <<pc, ip, initLog, cpuVars, eicVars, pbVars, currentSetting,
                   TC_CC0, TC_COUNT, PA15, bmCall,
                   usartVars, tickVars>>

\* the free-running counter moves on
HwCount ==
    /\ "TC0_Init" \in Range(initLog)
    /\ \E c \in CountSamples \ {TC_COUNT} : TC_COUNT' = c
    /\ UNCHANGED <<pc, ip, initLog, cpuVars, eicVars, pbVars, currentSetting,
                   TC_CC0, tc_syncbusy, PA15, bmCall,
                   usartVars, tickVars>>

NextBlink ==
    \/ platform_init
    \/ HwGclkSync
    \/ HwEicSwrstDone
    \/ HwEicEnableDone
    \/ platform_blink_modify_enter
    \/ platform_blink_modify_off
    \/ platform_blink_modify_on
    \/ platform_blink_modify_none
    \/ platform_blink_modify_cc
    \/ platform_blink_modify_wait_cc
    \/ read_count_cmd
    \/ platform_blink_modify_first
    \/ platform_blink_modify_second
    \/ SetMode
    \/ HwTcSyncDone
    \/ HwCount

SpecBlink == Init /\ [][NextBlink]_vars

\* ------------------------------------------------------------------------
\* Asynchronous serial channel (declared in platform.h)
\* ------------------------------------------------------------------------
platform_usart_cdc_tx_busy == tx_active # {}
platform_usart_cdc_rx_busy == rx_active # {}

\* mutant: the transmit enqueue does not look at the busy state
TxAcceptsAlways(active) == TRUE

\* an enqueue is accepted only when nothing of its direction is outstanding
TxAccepts(active) == active = {}
RxAccepts(active) == active = {}

\* mutant: a receive enqueue arms its descriptor even when it reports rejection
RxAfterAsyncOverwrite(active, d) == {d}

TxAfterAsync(active, d) == IF TxAccepts(active) THEN active \cup {d} ELSE active
RxAfterAsync(active, d) == IF RxAccepts(active) THEN active \cup {d} ELSE active

\* an abort drops whatever is outstanding
TxAfterAbort(active) == {}
RxAfterAbort(active) == {}

Event(op, d, ok, pre, post) ==
    [op |-> op, d |-> d, ok |-> ok, pre |-> pre, post |-> post]

platform_usart_cdc_tx_async ==
    /\ pc = "main"
    /\ \E d \in Descs :
         /\ tx_active' = TxAfterAsync(tx_active, d)
         /\ txLog' = Last2(txLog, Event("async", d, TxAccepts(tx_active),
                                        tx_active, TxAfterAsync(tx_active, d)))
    /\ UNCHANGED <<pc, ip, initLog, cpuVars, eicVars, pbVars, blinkVars,
                   rx_active, rx_compl, rxLog, tickNow, dlCall, tickVars>>

platform_usart_cdc_tx_abort ==
    /\ pc = "main"
    /\ tx_active' = TxAfterAbort(tx_active)
    /\ txLog' = Last2(txLog, Event("abort", 0, TRUE, tx_active,
                                   TxAfterAbort(tx_active)))
    /\ UNCHANGED <<pc, ip, initLog, cpuVars, eicVars, pbVars, blinkVars,
                   rx_active, rx_compl, rxLog, tickNow, dlCall, tickVars>>

\* the transmitter has sent the last fragment
TxComplete ==
    /\ ~InInit
    /\ tx_active # {}
    /\ tx_active' = {}
    /\ txLog' = Last2(txLog, Event("complete", 0, TRUE, tx_active, {}))
    /\ UNCHANGED <<pc, ip, initLog, cpuVars, eicVars, pbVars, blinkVars,
                   rx_active, rx_compl, rxLog, tickNow, dlCall, tickVars>>

platform_usart_cdc_rx_async ==
    /\ pc = "main"
    /\ \E d \in Descs :
         /\ rx_active' = RxAfterAsync(rx_active, d)
         /\ rx_compl' = IF RxAccepts(rx_active)
                          THEN [rx_compl EXCEPT ![d] = PLATFORM_USART_RX_COMPL_NONE]
                          ELSE rx_compl
         /\ rxLog' = Last2(rxLog,
                Event("async", d, RxAccepts(rx_active),
                      <<rx_active, rx_compl>>,
                      <<RxAfterAsync(rx_active, d),
                        IF RxAccepts(rx_active)
                          THEN [rx_compl EXCEPT ![d] = PLATFORM_USART_RX_COMPL_NONE]
                          ELSE rx_compl>>))
    /\ UNCHANGED <<pc, ip, initLog, cpuVars, eicVars, pbVars, blinkVars,
                   tx_active, txLog, tickNow, dlCall, tickVars>>

platform_usart_cdc_rx_abort ==
    /\ pc = "main"
    /\ rx_active' = RxAfterAbort(rx_active)
    /\ rxLog' = Last2(rxLog, Event("abort", 0, TRUE, <<rx_active, rx_compl>>,
                                   <<RxAfterAbort(rx_active), rx_compl>>))
    /\ UNCHANGED <<pc, ip, initLog, cpuVars, eicVars, pbVars, blinkVars,
                   tx_active, rx_compl, txLog, tickNow, dlCall, tickVars>>

\* the completion of a reception: the outcome is written into the descriptor
RxFinish ==
    /\ rx_active # {}
    /\ rx_compl' = [d \in Descs |-> IF d \in rx_active
                                      THEN PLATFORM_USART_RX_COMPL_DATA
                                      ELSE rx_compl[d]]
    /\ rx_active' = {}
    /\ rxLog' = Last2(rxLog,
           Event("complete", 0, TRUE, <<rx_active, rx_compl>>,
                 <<{}, [d \in Descs |-> IF d \in rx_active
                                          THEN PLATFORM_USART_RX_COMPL_DATA
                                          ELSE rx_compl[d]]>>))

\* the receiver interrupt ends a reception
RxComplete ==
    /\ ~InInit
    /\ RxFinish
    /\ UNCHANGED <<pc, ip, initLog, cpuVars, eicVars, pbVars, blinkVars,
                   tx_active, txLog, tickNow, dlCall, tickVars>>

\* ------------------------------------------------------------------------
\* platform_do_loop_one
\* ------------------------------------------------------------------------
\* platform_tick_hrcount(&tick);
platform_do_loop_one_tick ==
    /\ pc = "main"
    /\ dlCall' = [samples |-> <<tickNow>>, handed |-> <<>>, done |-> FALSE]
    /\ pc' = "dl_handler"
    /\ UNCHANGED <<ip, initLog, cpuVars, eicVars, pbVars, blinkVars, tx_active,
                   rx_active, rx_compl, txLog, rxLog, tickNow, tickVars>>

\* mutant: the tick handler is given a fresh reading of the clock
platform_do_loop_one_handler_resample ==
    /\ pc = "dl_handler"
    /\ dlCall' = [dlCall EXCEPT !.handed = Append(@, tickNow),
                                !.done = TRUE]
    /\ pc' = "main"
    /\ \/ RxFinish
       \/ UNCHANGED <<rx_active, rx_compl, rxLog, tickVars>>
    /\ UNCHANGED <<ip, initLog, cpuVars, eicVars, pbVars, blinkVars, tx_active,
                   txLog, tickNow, tickVars>>

\* platform_usart_tick_handler(&tick); it may end a reception that has gone idle
platform_do_loop_one_handler ==
    /\ pc = "dl_handler"
    /\ dlCall' = [dlCall EXCEPT !.handed = Append(@, dlCall.samples[1]),
                                !.done = TRUE]
    /\ pc' = "main"
    /\ \/ RxFinish
       \/ UNCHANGED <<rx_active, rx_compl, rxLog, tickVars>>
    /\ UNCHANGED <<ip, initLog, cpuVars, eicVars, pbVars, blinkVars, tx_active,
                   txLog, tickNow, tickVars>>

HwTick ==
    /\ tickNow < MaxTick
    /\ tickNow' = tickNow + 1
    /\ UNCHANGED <<pc, ip, initLog, cpuVars, eicVars, pbVars, blinkVars,
                   tx_active, rx_active, rx_compl, txLog, rxLog, dlCall, tickVars>>

NextUsart ==
    \/ platform_init
    \/ HwGclkSync
    \/ HwEicSwrstDone
    \/ HwEicEnableDone
    \/ platform_usart_cdc_tx_async
    \/ platform_usart_cdc_tx_abort
    \/ TxComplete
    \/ platform_usart_cdc_rx_async
    \/ platform_usart_cdc_rx_abort
    \/ RxComplete
    \/ platform_do_loop_one_tick
    \/ platform_do_loop_one_handler

SpecUsart == Init /\ [][NextUsart]_vars

\* ------------------------------------------------------------------------
\* Tick arithmetic (declared in platform.h)
\* ------------------------------------------------------------------------
Timespec(sec, nsec) == [sec |-> sec, nsec |-> nsec]

\* -1 if lhs is earlier than rhs, +1 if it is later, 0 otherwise
platform_timespec_compare(lhs, rhs) ==
    IF lhs.sec < rhs.sec THEN 0 - 1
    ELSE IF lhs.sec > rhs.sec THEN 1
    ELSE IF lhs.nsec < rhs.nsec THEN 0 - 1
    ELSE IF lhs.nsec > rhs.nsec THEN 1
    ELSE 0

\* mutant: the nanosecond borrow is not taken from the seconds
TickDeltaNoBorrow(lhs, rhs) ==
    LET borrow == IF lhs.nsec < rhs.nsec THEN 1 ELSE 0
    IN  Timespec((lhs.sec - rhs.sec) % SecModulus,
                 lhs.nsec + borrow * NSEC_PER_SEC - rhs.nsec)

\* lhs - rhs: the nanosecond borrow is taken from the seconds, and the
\* seconds are subtracted in the width of the field, which counts one
\* wraparound of the counter
TickDelta(lhs, rhs) ==
    LET borrow == IF lhs.nsec < rhs.nsec THEN 1 ELSE 0
    IN  Timespec((lhs.sec - rhs.sec - borrow) % SecModulus,
                 lhs.nsec + borrow * NSEC_PER_SEC - rhs.nsec)

SecSamples ==
    (0..TickSpan) \cup ((SecModulus - 1 - TickSpan)..(SecModulus - 1))
NsecSamples ==
    (0..TickSpan) \cup {100} \cup
    ((NSEC_PER_SEC - 1 - TickSpan)..(NSEC_PER_SEC - 1))
TickSamples == {Timespec(s, n) : s \in SecSamples, n \in NsecSamples}

platform_tick_delta ==
    /\ pc = "main"
    /\ \E lhs \in TickSamples, rhs \in TickSamples :
         tdCall' = [valid |-> TRUE, lhs |-> lhs, rhs |-> rhs,
                    diff |-> TickDelta(lhs, rhs)]
    /\ UNCHANGED <<pc, ip, initLog, cpuVars, eicVars, pbVars, blinkVars,
                   usartVars>>

NextTick ==
    \/ platform_init
    \/ HwGclkSync
    \/ HwEicSwrstDone
    \/ HwEicEnableDone
    \/ platform_tick_delta

SpecTick == Init /\ [][NextTick]_vars

\* ------------------------------------------------------------------------
\* The main-loop services next to the interrupt handler
\* ------------------------------------------------------------------------
NextFrame ==
    \/ platform_init
    \/ HwGclkSync
    \/ HwEicSwrstDone
    \/ HwEicEnableDone
    \/ ButtonEdge
    \/ EIC_EXTINT_2_Handler
    \/ EIC_EXTINT_2_Handler_ack
    \/ SetMode
    \/ platform_blink_modify_enter
    \/ platform_blink_modify_off
    \/ platform_blink_modify_on
    \/ platform_blink_modify_none
    \/ platform_blink_modify_cc
    \/ platform_blink_modify_wait_cc
    \/ read_count_cmd
    \/ platform_blink_modify_first
    \/ platform_blink_modify_second
    \/ HwTcSyncDone
    \/ platform_do_loop_one_tick
    \/ platform_do_loop_one_handler
    \/ HwTick

SpecFrame == Init /\ [][NextFrame]_vars

\* ------------------------------------------------------------------------
\* Progress of the main thread
\* ------------------------------------------------------------------------
MainLive ==
    \/ platform_init
    \/ platform_pb_get_event_load
    \/ platform_pb_get_event_store
    \/ platform_blink_modify_enter
    \/ platform_blink_modify_off
    \/ platform_blink_modify_on
    \/ platform_blink_modify_none
    \/ platform_blink_modify_cc
    \/ platform_blink_modify_wait_cc
    \/ read_count_cmd
    \/ platform_blink_modify_first
    \/ platform_blink_modify_second
    \/ platform_do_loop_one_tick
    \/ platform_do_loop_one_handler
    \/ SetMode

NextLive ==
    \/ MainLive
    \/ HwGclkSync
    \/ HwEicSwrstDone
    \/ HwEicEnableDone
    \/ HwTcSyncDone

\* the processor keeps executing the main thread whenever it has a step to
\* take; nothing obliges the hardware to finish a synchronisation
LiveSpec == Init /\ [][NextLive]_vars /\ WF_vars(MainLive)

NextPB ==
    \/ platform_init
    \/ HwGclkSync
    \/ HwEicSwrstDone
    \/ HwEicEnableDone
    \/ ButtonEdge
    \/ EIC_EXTINT_2_Handler
    \/ EIC_EXTINT_2_Handler_ack
    \/ platform_pb_get_event_load
    \/ platform_pb_get_event_store

SpecPB == Init /\ [][NextPB]_vars
\* ------------------------------------------------------------------------
\* Properties
\* ------------------------------------------------------------------------
PRESS == PLATFORM_PB_ONBOARD_PRESS
RELEASE == PLATFORM_PB_ONBOARD_RELEASE

\* C1: a platform_pb_get_event call preceded, since the previous call
\* returned, by exactly one handler run that read the pin low returns exactly
\* PRESS; a call with no handler run since the previous call returned
\* returns 0.
C1_ReadAndClear ==
    lastCall.valid =>
        /\ lastCall.before = <<0>> => lastCall.ret = PRESS
        /\ lastCall.before = <<>> => lastCall.ret = 0

\* C1 witness: a press was read as PRESS and the next call, with no handler
\* run in between, returned empty.
C1_Witness ==
    /\ prevCall.valid /\ prevCall.before = <<0>> /\ prevCall.ret = PRESS
    /\ lastCall.valid /\ lastCall.before = <<>> /\ lastCall.ret = 0

\* C2 as stated: after a press and then a release with no read in between,
\* the next platform_pb_get_event returns a mask holding both PRESS and
\* RELEASE.
C2_Original ==
    (lastCall.valid /\ lastCall.before = <<0, 1>>) =>
        BitAnd(lastCall.ret, PLATFORM_PB_ONBOARD_MASK) = PLATFORM_PB_ONBOARD_MASK

\* C2 amended: after a press and then a release with no read in between, the
\* next platform_pb_get_event returns exactly RELEASE (the release run of the
\* handler cleared the PRESS bit), and the call after that, with no further
\* handler run, returns empty.
C2_PressThenRelease ==
    /\ (lastCall.valid /\ lastCall.before = <<0, 1>>) => lastCall.ret = RELEASE
    /\ (prevCall.valid /\ prevCall.before = <<0, 1>>
          /\ lastCall.valid /\ lastCall.before = <<>>) => lastCall.ret = 0

\* C2 witness: press, release, a read that returned RELEASE, then an empty read.
C2_Witness ==
    /\ prevCall.valid /\ prevCall.before = <<0, 1>> /\ prevCall.ret = RELEASE
    /\ lastCall.valid /\ lastCall.before = <<>> /\ lastCall.ret = 0

\* the event bit a handler run records for the pin level it read
EventBit(level) == IF level = 0 THEN PRESS ELSE RELEASE

\* C3 as stated: when platform_pb_get_event returns, the event recorded by
\* the last handler run that preempted it between its load and its store is
\* in the returned value or still in pb_press_mask.
C3_Original ==
    [][(pc = "ge_store" /\ pc' = "main" /\ evDuring # <<>>) =>
        LET bit == EventBit(evDuring[Len(evDuring)])
        IN  \/ BitAnd(lastCall'.ret, bit) = bit
            \/ BitAnd(pb_press_mask', bit) = bit]_vars

\* the claim's period and duty (in tenths) of a timed mode
ClaimPeriod(mode) ==
    CASE mode = SLOW -> 23438 [] mode = MEDIUM -> 11719 [] OTHER -> 7032
ClaimDuty(mode) ==
    CASE mode = SLOW -> 9 [] mode = MEDIUM -> 8 [] OTHER -> 5

\* a timed platform_blink_modify call has returned and both of its counter
\* samples were the same value
StableTimedCall ==
    /\ bmCall.done
    /\ bmCall.mode \in {SLOW, MEDIUM, FAST}
    /\ Len(bmCall.samples) = 2
    /\ bmCall.samples[1] = bmCall.samples[2]

\* C4: after a timed platform_blink_modify call with a stable counter value c
\* the compare register holds the mode's period, the LED is inactive when c is
\* below period*duty and active when c is above it, whatever it was before;
\* SLOW gives inactive at 20000 and active at 22000.
C4_BlinkThresholds ==
    StableTimedCall =>
        LET c == bmCall.samples[1]
            p == ClaimPeriod(bmCall.mode)
            d == ClaimDuty(bmCall.mode)
        IN  /\ TC_CC0 = p
            /\ 10 * c < p * d => PA15 = 0
            /\ 10 * c > p * d => PA15 = 1
            /\ (bmCall.mode = SLOW /\ c = 20000) => PA15 = 0
            /\ (bmCall.mode = SLOW /\ c = 22000) => PA15 = 1

\* C4 witness: SLOW at 20000 switched a lit LED off.
C4_Witness ==
    /\ StableTimedCall
    /\ bmCall.mode = SLOW
    /\ bmCall.samples = <<20000, 20000>>
    /\ bmCall.ledBefore = 1
    /\ PA15 = 0

\* C5 as stated: after a timed call with a stable counter value c the LED is
\* active if and only if c is strictly greater than the threshold, so it is
\* inactive when c equals the threshold.
C5_Original ==
    StableTimedCall =>
        LET c == bmCall.samples[1]
            p == ClaimPeriod(bmCall.mode)
            d == ClaimDuty(bmCall.mode)
        IN  (PA15 = 1) <=> (10 * c > p * d)

\* C6: after platform_blink_modify in mode OFF the LED is low and in mode ON
\* it is high, for every counter value and prior LED level, and the call took
\* no counter sample and wrote the compare register not once.
C6_DegenerateModes ==
    (bmCall.done /\ bmCall.mode \in {OFF, ON}) =>
        /\ bmCall.mode = OFF => PA15 = 0
        /\ bmCall.mode = ON => PA15 = 1
        /\ bmCall.samples = <<>>
        /\ bmCall.ccWrites = 0

\* C6 witness: an OFF call switched a lit LED off while the counter was past
\* the SLOW threshold.
C6_Witness ==
    /\ bmCall.done
    /\ bmCall.mode = OFF
    /\ bmCall.ledBefore = 1
    /\ PA15 = 0
    /\ TC_COUNT = 22000

InBlinkModify ==
    pc \in {"bm_switch", "bm_wait_cc", "bm_rc1_cmd", "bm_rc1_wait",
            "bm_rc2_cmd", "bm_rc2_wait"}

\* C7 as stated: platform_pb_get_event, platform_blink_modify and
\* platform_do_loop_one each return even if a synchronisation-busy bit never
\* clears.
C7_Original ==
    /\ (pc = "ge_store") ~> (pc = "main")
    /\ InBlinkModify ~> (pc = "main")
    /\ (pc = "dl_handler") ~> (pc = "main")

\* the order of the calls in platform_init
ClaimOrder ==
    << "raise_perf_level", "EVSYS_init", "EIC_init_early", "TC0_Init",
       "PB_init", "Emergency_Pins_Init", "blink_init", "platform_usart_init",
       "EIC_init_late", "platform_systick_init", "NVIC_init" >>

\* C8: the steps of platform_init return in the stated order, NVIC_init last,
\* and the first run of EIC_EXTINT_2_Handler comes after every step other
\* than NVIC_init has returned.
C8_InitOrder ==
    /\ Len(initLog) <= Len(ClaimOrder)
    /\ \A i \in 1..Len(initLog) : initLog[i] = ClaimOrder[i]
    /\ pc = "main" => initLog = ClaimOrder
    /\ hRanAt # <<>> =>
         \A f \in Range(ClaimOrder) \ {"NVIC_init"} : f \in Range(hRanAt[1])

\* C8 witness: the handler first ran inside NVIC_init, on an edge latched
\* before the interrupt was enabled.
C8_Witness ==
    /\ hRanAt # <<>>
    /\ Len(hRanAt[1]) = Len(ClaimOrder) - 1
    /\ pc = "main"

AsyncAfter(log, prevOp) ==
    /\ Len(log) = 2
    /\ log[1].op = prevOp
    /\ log[2].op = "async"

\* C9: a transmit enqueue straight after an accepted one is rejected; after
\* an abort the channel is not busy and the next enqueue is accepted; never
\* more than one transmission is in flight.
C9_SingleOutstandingTx ==
    /\ (AsyncAfter(txLog, "async") /\ txLog[1].ok) => ~txLog[2].ok
    /\ (txLog # <<>> /\ txLog[Len(txLog)].op = "abort") =>
          ~platform_usart_cdc_tx_busy
    /\ AsyncAfter(txLog, "abort") => txLog[2].ok
    /\ Cardinality(tx_active) <= 1

\* C9 witness: an accepted enqueue was followed by a rejected one while the
\* first is still in flight.
C9_Witness ==
    /\ AsyncAfter(txLog, "async")
    /\ txLog[1].ok
    /\ ~txLog[2].ok
    /\ txLog[1].d # txLog[2].d
    /\ tx_active = {txLog[1].d}

Rejected(e) == e.op = "async" /\ ~e.ok

\* C10: an rx abort while idle leaves the receiver not busy; a second abort
\* in a row leaves the state the first one left; a rejected enqueue, of
\* either direction, leaves the in-flight descriptor and the busy state as
\* they were.
C10_AbortAndRejection ==
    /\ \A i \in 1..Len(rxLog) :
          /\ (rxLog[i].op = "abort" /\ rxLog[i].pre[1] = {}) => rxLog[i].post[1] = {}
          /\ Rejected(rxLog[i]) =>
                (rxLog[i].post = rxLog[i].pre /\ rxLog[i].post[1] # {})
    /\ \A i \in 1..Len(txLog) :
          Rejected(txLog[i]) =>
                (txLog[i].post = txLog[i].pre /\ txLog[i].post # {})
    /\ (Len(rxLog) = 2 /\ rxLog[1].op = "abort" /\ rxLog[2].op = "abort") =>
          (rxLog[2].post = rxLog[1].post /\ ~platform_usart_cdc_rx_busy)
    /\ (Len(txLog) = 2 /\ txLog[1].op = "abort" /\ txLog[2].op = "abort") =>
          (txLog[2].post = txLog[1].post /\ ~platform_usart_cdc_tx_busy)

\* C10 witness: the idle receiver was aborted twice in a row, and a transmit
\* enqueue was rejected while another descriptor was in flight.
C10_Witness ==
    /\ Len(rxLog) = 2 /\ rxLog[1].op = "abort" /\ rxLog[2].op = "abort"
    /\ rxLog[1].pre[1] = {}
    /\ ~platform_usart_cdc_rx_busy
    /\ txLog # <<>>
    /\ Rejected(txLog[Len(txLog)])
    /\ tx_active # {}
    /\ txLog[Len(txLog)].d \notin tx_active

\* C11: for operands with nanoseconds in [0, 999999999] platform_tick_delta
\* gives a difference with nanoseconds in the same range; adding it back to
\* rhs, with the nanosecond carry, gives lhs exactly when lhs is not earlier
\* than rhs and gives lhs plus one counter period when lhs is earlier (one
\* wraparound); a sample of 100 ns just after the wrap minus a sample 1 ns
\* before the wrap is 101 ns.
C11_TickDelta ==
    tdCall.valid =>
        LET l == tdCall.lhs
            r == tdCall.rhs
            d == tdCall.diff
            carry == (r.nsec + d.nsec) \div 1000000000
        IN  /\ d.nsec \in 0..999999999
            /\ d.sec \in 0..(SecModulus - 1)
            /\ (r.nsec + d.nsec) % 1000000000 = l.nsec
            /\ platform_timespec_compare(l, r) >= 0 =>
                   r.sec + d.sec + carry = l.sec
            /\ platform_timespec_compare(l, r) < 0 =>
                   r.sec + d.sec + carry = l.sec + SecModulus
            /\ (l = Timespec(0, 100)
                  /\ r = Timespec(SecModulus - 1, 999999999)) =>
                   d = Timespec(0, 101)

\* C11 witness: the difference across the wrap, with a nanosecond borrow.
C11_Witness ==
    /\ tdCall.valid
    /\ tdCall.lhs = Timespec(0, 100)
    /\ tdCall.rhs = Timespec(SecModulus - 1, 999999999)
    /\ tdCall.diff = Timespec(0, 101)

\* the step in which EIC_EXTINT_2_Handler is entered and reads the pin
HandlerRan == pc # "eic_ack" /\ pc' = "eic_ack"

\* the step in which EIC_EXTINT_2_Handler returns
HandlerReturns == pc = "eic_ack" /\ pc' # "eic_ack"

\* C12: when a handler invocation returns, pb_press_mask is exactly PRESS if
\* the pin read low and exactly RELEASE otherwise, whatever it held before.
C12_HandlerOverwrites ==
    [][/\ HandlerRan =>
            pb_press_mask' = (IF pin = 0 THEN PLATFORM_PB_ONBOARD_PRESS
                                         ELSE PLATFORM_PB_ONBOARD_RELEASE)
       /\ HandlerReturns =>
            pb_press_mask' = (IF LevelRead = 0 THEN PLATFORM_PB_ONBOARD_PRESS
                                               ELSE PLATFORM_PB_ONBOARD_RELEASE)]_vars

\* C12 witness: a release run of the handler replaced a recorded PRESS.
C12_Witness ==
    /\ evIdle = <<0, 1>>
    /\ pb_press_mask = RELEASE
    /\ pc = "main"

\* C13: pb_press_mask, and every value platform_pb_get_event returns, is 0,
\* PRESS or RELEASE; the returned value is the event of the last handler run
\* between the previous clearing of the mask and the read, and 0 if there was
\* none.
C13_MaskValues ==
    /\ pb_press_mask \in {0, 1, 2}
    /\ cache \in {0, 1, 2}
    /\ lastCall.valid =>
         /\ lastCall.ret \in {0, 1, 2}
         /\ lastCall.before = <<>> => lastCall.ret = 0
         /\ lastCall.before # <<>> =>
              lastCall.ret = EventBit(lastCall.before[Len(lastCall.before)])

\* C13 witness: a release and then a press were recorded before a read, which
\* returned PRESS alone.
C13_Witness ==
    /\ lastCall.valid
    /\ lastCall.before = <<1, 0>>
    /\ lastCall.ret = PRESS
    /\ pb_press_mask = 0

\* C18: every handler invocation is entered with the EXTINT[2] flag set and
\* leaves it cleared, on the press and on the release path, so that the
\* interrupt is no longer pending when the handler returns.
C18_HandlerAcknowledges ==
    [][/\ HandlerRan => eic_intflag2 = 1
       /\ HandlerReturns =>
            /\ eic_intflag2' = 0
            /\ pc' = hret
            /\ ~(nvic_eic' /\ primask' = 0 /\ eic_intenset2' = 1
                   /\ eic_intflag2' = 1)]_vars

\* C18 witness: a press and a release have each been handled and no
\* interrupt is pending.
C18_Witness ==
    /\ Len(evIdle) = 2
    /\ evIdle[1] = 0 /\ evIdle[2] = 1
    /\ eic_intflag2 = 0
    /\ pin = 1

\* C14 as stated: after a timed platform_blink_modify call during which the
\* counter moved between the two samples, the LED is active exactly when the
\* last sample is above the threshold, whatever the LED was before.
C14_Original ==
    (/\ bmCall.done
     /\ bmCall.mode \in {SLOW, MEDIUM, FAST}
     /\ Len(bmCall.samples) = 2
     /\ bmCall.samples[1] # bmCall.samples[2]) =>
        LET c == bmCall.samples[2]
            p == ClaimPeriod(bmCall.mode)
            d == ClaimDuty(bmCall.mode)
        IN  (PA15 = 1) <=> (10 * c > p * d)

\* a step of platform_blink_modify
BlinkStep ==
    \/ pc = "main" /\ pc' = "bm_switch"
    \/ InBlinkModify /\ pc' # pc /\ pc' # "eic_ack"

\* C15: no step of platform_blink_modify changes currentSetting or
\* pb_press_mask; a call with a mode outside OFF..ON writes neither the LED
\* nor the timer; currentSetting changes only in a step of its own, between
\* two operations of the main loop.
C15_BlinkModifyFrame ==
    [][/\ BlinkStep =>
            (currentSetting' = currentSetting /\ pb_press_mask' = pb_press_mask)
       /\ (pc = "bm_switch" /\ pc' = "main" /\ currentSetting \notin OFF..ON) =>
            (PA15' = PA15 /\ TC_CC0' = TC_CC0 /\ tc_syncbusy' = tc_syncbusy)
       /\ currentSetting' # currentSetting => (pc = "main" /\ pc' = "main")]_vars

\* C15 witness: a call with a mode outside OFF..ON has returned with the LED
\* lit, the compare register programmed and a button event pending.
C15_Witness ==
    /\ bmCall.done
    /\ bmCall.mode \notin OFF..ON
    /\ bmCall.ledBefore = 1
    /\ PA15 = 1
    /\ TC_CC0 # 0
    /\ pb_press_mask # 0

\* a step of platform_do_loop_one
LoopStep ==
    \/ pc = "main" /\ pc' = "dl_handler"
    \/ pc = "dl_handler" /\ pc' = "main"

\* C19: platform_do_loop_one takes one tick sample and then calls the tick
\* handler once, with that sample; none of its steps changes pb_press_mask,
\* the blink mode or the LED pin.
C19_LoopOne ==
    /\ [][LoopStep =>
            (/\ pb_press_mask' = pb_press_mask
             /\ currentSetting' = currentSetting
             /\ PA15' = PA15)]_vars
    /\ [](pc = "dl_handler" =>
            (Len(dlCall.samples) = 1 /\ dlCall.handed = <<>>))
    /\ [](dlCall.done =>
            (Len(dlCall.samples) = 1 /\ dlCall.handed = dlCall.samples))

\* C19 witness: a call has returned after the tick advanced, with a button
\* event pending, the LED lit and a timed mode set.
C19_Witness ==
    /\ dlCall.done
    /\ dlCall.handed = dlCall.samples
    /\ dlCall.samples[1] < tickNow
    /\ pb_press_mask # 0
    /\ PA15 = 1
    /\ currentSetting = SLOW
    /\ pc = "main"

\* the registers named by the configuration writes made so far, in order
CfgRegs == [i \in 1..Len(eicCfgLog) |-> eicCfgLog[i][1]]

\* positions of platform_init at which the EIC reset has not yet completed
BeforeEicReset ==
    pc \in {"raise_perf_level", "EVSYS_init", "EIC_init_early",
            "EIC_early_wait_gclk", "EIC_early_wait_swrst"}

\* C16: every write to an EIC configuration register is made with the EIC
\* disabled and its software reset complete; none is made before the reset
\* wait is over, and once the enable bit is set the five writes (DPRESCALER,
\* DEBOUNCEN, CONFIG0 twice, INTENSET) have all been made and no other follows.
C16_ConfiguredWhileDisabled ==
    /\ \A i \in 1..Len(eicCfgLog) :
           eicCfgLog[i][2] = FALSE /\ eicCfgLog[i][3] = FALSE
    /\ (BeforeEicReset \/ eic_swrst_busy) => eicCfgLog = <<>>
    /\ eic_enable =>
           CfgRegs = <<"DPRESCALER", "DEBOUNCEN", "CONFIG0", "CONFIG0",
                       "INTENSET">>

\* C16 witness: platform_init has returned with the EIC enabled, synchronised
\* and configured by the five writes to its four configuration registers.
C16_Witness ==
    /\ pc = "main"
    /\ eic_enable /\ ~eic_enable_busy
    /\ Len(eicCfgLog) = 5
    /\ eic_intenset2 = 1

\* the conditions the three busy-waits of platform_init test
GclkReady == BitAnd(GCLK_PCHCTRL4, 66) # 0
AtGclkWait == pc = "EIC_early_wait_gclk"
AtResetWait == pc = "EIC_early_wait_swrst"
AtEnableWait == pc = "EIC_late_wait"

\* platform_init has not returned and has not reached NVIC_init
NoReturnNoIrq ==
    /\ pc \notin {"main", "NVIC_init", "NVIC_enable_eic", "NVIC_enable_systick"}
    /\ ~nvic_eic /\ ~nvic_systick
    /\ InInit

\* C17: if each busy-wait platform_init reaches finds its condition
\* satisfied at some later time, platform_init returns with both interrupt
\* lines enabled by NVIC_init; if platform_init stands at one of the waits and
\* the condition stays unsatisfied for ever, it never returns and never
\* reaches NVIC_init.
C17_InitTermination ==
    /\ (/\ [](AtGclkWait => <>GclkReady)
        /\ [](AtResetWait => <>(~eic_swrst_busy))
        /\ [](AtEnableWait => <>(~eic_enable_busy)))
          => <>(pc = "main" /\ initLog = ClaimOrder /\ nvic_eic /\ nvic_systick)
    /\ <>(AtGclkWait /\ [](~GclkReady)) => []NoReturnNoIrq
    /\ <>(AtResetWait /\ []eic_swrst_busy) => []NoReturnNoIrq
    /\ <>(AtEnableWait /\ []eic_enable_busy) => []NoReturnNoIrq

\* C17 witness: the three conditions were met and platform_init has returned
\* after NVIC_init unmasked interrupts and enabled both lines.
C17_Witness ==
    /\ pc = "main" /\ ~InInit
    /\ initLog = ClaimOrder
    /\ GclkReady /\ ~eic_swrst_busy /\ ~eic_enable_busy /\ eic_enable
    /\ primask = 0 /\ nvic_eic /\ nvic_systick

Next ==
    \/ platform_init
    \/ HwGclkSync
    \/ HwEicSwrstDone
    \/ HwEicEnableDone
    \/ ButtonEdge
    \/ EIC_EXTINT_2_Handler
    \/ EIC_EXTINT_2_Handler_ack
    \/ platform_pb_get_event_load
    \/ platform_pb_get_event_store
    \/ platform_blink_modify_enter
    \/ platform_blink_modify_off
    \/ platform_blink_modify_on
    \/ platform_blink_modify_none
    \/ platform_blink_modify_cc
    \/ platform_blink_modify_wait_cc
    \/ read_count_cmd
    \/ platform_blink_modify_first
    \/ platform_blink_modify_second
    \/ SetMode
    \/ HwTcSyncDone
    \/ HwCount
    \/ platform_usart_cdc_tx_async
    \/ platform_usart_cdc_tx_abort
    \/ TxComplete
    \/ platform_usart_cdc_rx_async
    \/ platform_usart_cdc_rx_abort
    \/ RxComplete
    \/ platform_do_loop_one_tick
    \/ platform_do_loop_one_handler
    \/ HwTick
    \/ platform_tick_delta

Spec == Init /\ [][Next]_vars
====
